---- MODULE Spec2Model ----
(***************************************************************************)
(* A model of the story evaluator of shorts_creator (evaluate.py) and of   *)
(* the record store it writes to (database.py).                            *)
(*                                                                         *)
(* A story's content is a text; the evaluator reads only its length in     *)
(* characters (the sort key of create_batches) and its number of           *)
(* whitespace-separated words (the token estimate), so a content is the    *)
(* record [len, words].  A JSON value of a scoring response is the record  *)
(* [t, n, s]: its type tag, its number and its string.                     *)
(***************************************************************************)
EXTENDS Integers, Sequences, FiniteSets, TLC

VARIABLES
    pc,                 \* where the modelled caller stands
    stories,            \* the list of stories handed to create_batches
    batches,            \* the batches create_batches returned
    cand,               \* the candidate record handed to validate_evaluation
    verdict,            \* what validate_evaluation returned for cand
    stories_table,      \* the rows of the table stories
    evaluations_table,  \* the rows of the table stories_evaluations
    op,                 \* the last call made to the store on its own: what
                        \* it was given and what it returned
    call,               \* the last call of process_batch: what it was given
                        \* and what it did
    batch_no,           \* run: i, the number of the batch being processed
    failures,           \* run: failures
    total_processed,    \* run: total_processed
    trace,              \* run: the calls its batch loop made so far, in order
    engine,             \* the evaluator's store connection: "none", "open"
                        \* or "closed"
    scrape              \* the scraper's run: its configuration, what the
                        \* content source did so far, and its counters

planVars == <<stories, batches>>
valVars == <<cand, verdict>>
storeVars == <<stories_table, evaluations_table, op>>
runVars == <<batch_no, failures, total_processed, trace, engine>>
vars == <<pc, planVars, valVars, storeVars, call, runVars, scrape>>

-----------------------------------------------------------------------------
(* Program constants (evaluate.py)                                         *)

MAX_TOKENS_PER_BATCH == 50000
MAX_STORIES_PER_BATCH == 20
MAX_RETRIES == 3

-----------------------------------------------------------------------------
(* Bounds of the model                                                     *)

\* the longest list of stories create_batches is applied to
MaxStories == 21
\* how many of these stories are not of the filler kind
MaxHeavy == 2
\* the longest batch process_batch is applied to on its own
MaxBatch == 2
\* the longest list a scoring response holds
MaxResp == 2
\* how many stories the scraper stores
MaxStored == 4
\* how many reddit_ids the calls made to the store on its own are about
MaxKeys == 2
\* how many subreddits the scraper's configuration names
MaxSubs == 2

-----------------------------------------------------------------------------
(* Stories                                                                 *)

Range(f) == {f[x] : x \in DOMAIN f}

\* A text, as far as the evaluator reads it: len(text) and len(text.split()).
Text(l, w) == [len |-> l, words |-> w]

\* flair is None (or the empty text)
NoFlair == Text(0, 0)

\* StoryData (a TypedDict): reddit_id, subreddit, content, created_utc, flair.
StoryData(id, sub, content, utc, flair) ==
    [reddit_id |-> id, subreddit |-> sub, content |-> content,
     created_utc |-> utc, flair |-> flair]

\* format_story_for_prompt, as the number of words of the text it returns:
\*   Story ID: <id>            3 words (an id holds no whitespace)
\*   Subreddit: r/<sub>        2 words
\*   Flair: <flair or 'None'>  1 + the flair's words, 'None' when it is falsy
\*   Content: <content>        1 + the content's words
format_story_for_prompt(story) ==
    3 + 2
    + (1 + (IF story.flair.len = 0 THEN 1 ELSE story.flair.words))
    + (1 + story.content.words)

\* estimate_tokens: int(word_count / 0.75)
estimate_tokens(word_count) == (4 * word_count) \div 3

story_tokens(story) == estimate_tokens(format_story_for_prompt(story))

-----------------------------------------------------------------------------
(* create_batches                                                          *)

\* sorted(stories, key=lambda x: len(x["content"])) is a stable sort: a story
\* goes behind every story that is not longer and was placed before it.
InsertUnstable(sorted_prefix, story) ==
    LET n == Cardinality({j \in 1..Len(sorted_prefix) :
                 sorted_prefix[j].content.len < story.content.len})
    IN  SubSeq(sorted_prefix, 1, n) \o <<story>>
            \o SubSeq(sorted_prefix, n + 1, Len(sorted_prefix))

InsertByLength(sorted_prefix, story) ==
    LET n == Cardinality({j \in 1..Len(sorted_prefix) :
                 sorted_prefix[j].content.len <= story.content.len})
    IN  SubSeq(sorted_prefix, 1, n) \o <<story>>
            \o SubSeq(sorted_prefix, n + 1, Len(sorted_prefix))

RECURSIVE SortPrefix(_, _)
SortPrefix(list, k) ==
    IF k = 0 THEN <<>>
    ELSE InsertByLength(SortPrefix(list, k - 1), list[k])

stories_by_length(list) == SortPrefix(list, Len(list))

\* would_exceed_tokens = current_tokens + story_tokens > MAX_TOKENS_PER_BATCH
would_exceed_tokens_before(current_tokens, tokens) ==
    current_tokens > MAX_TOKENS_PER_BATCH

would_exceed_tokens(current_tokens, tokens) ==
    current_tokens + tokens > MAX_TOKENS_PER_BATCH

\* would_exceed_count = len(current_batch) >= MAX_STORIES_PER_BATCH
would_exceed_count_early(current_batch) ==
    Len(current_batch) >= MAX_STORIES_PER_BATCH - 1

would_exceed_count_late(current_batch) ==
    Len(current_batch) > MAX_STORIES_PER_BATCH

would_exceed_count(current_batch) ==
    Len(current_batch) >= MAX_STORIES_PER_BATCH

\* The loop of create_batches from the k-th sorted story on.
RECURSIVE BatchLoop(_, _, _, _, _)
BatchLoop(sorted, k, done, current_batch, current_tokens) ==
    IF k > Len(sorted)
    THEN [batches |-> done, current_batch |-> current_batch]
    ELSE LET story == sorted[k]
             tokens == story_tokens(story)
         IN  IF /\ \/ would_exceed_tokens(current_tokens, tokens)
                    \/ would_exceed_count(current_batch)
                /\ current_batch # <<>>
             THEN BatchLoop(sorted, k + 1, Append(done, current_batch),
                            <<story>>, tokens)
             ELSE BatchLoop(sorted, k + 1, done,
                            Append(current_batch, story),
                            current_tokens + tokens)

\* "Add the last batch": if current_batch: batches.append(current_batch)
LastBatchDropped(loop) == loop.batches

LastBatch(loop) ==
    IF loop.current_batch # <<>>
    THEN Append(loop.batches, loop.current_batch)
    ELSE loop.batches

create_batches(list) ==
    LastBatch(BatchLoop(stories_by_length(list), 1, <<>>, <<>>, 0))

-----------------------------------------------------------------------------
(* validate_evaluation                                                     *)

CATEGORIES ==
    {"relationship", "workplace", "family", "revenge", "confession",
     "humor", "drama", "mystery", "lifestyle", "uncategorized"}

TARGET_AUDIENCES == {"general", "young_adult", "mature", "teens"}

\* A value json.loads returns: t is its Python type ("str", "int", "bool",
\* "float", "NoneType", "list", "dict"), n its number (True is 1, False 0),
\* s its text.
JsonStr(s) == [t |-> "str", n |-> 0, s |-> s]
JsonInt(n) == [t |-> "int", n |-> n, s |-> ""]
JsonBool(n) == [t |-> "bool", n |-> n, s |-> ""]
JsonFloat == [t |-> "float", n |-> 0, s |-> ""]
JsonNull == [t |-> "NoneType", n |-> 0, s |-> ""]
\* a key the dict does not hold
Absent == [t |-> "absent", n |-> 0, s |-> ""]

required_fields == <<"reddit_id", "score", "category", "target_audience">>

\* An element of the response: a JSON object holding (or not) the four
\* fields, or a value that is no object.
Object(rid, score, category, audience) ==
    [obj |-> TRUE, reddit_id |-> rid, score |-> score,
     category |-> category, target_audience |-> audience]
NoCandidate == Object(Absent, Absent, Absent, Absent)
NonObject == [obj |-> FALSE, reddit_id |-> Absent, score |-> Absent,
              category |-> Absent, target_audience |-> Absent]

\* isinstance(v, str)
isinstance_str(v) == v.t = "str"

\* isinstance(v, int): bool is a subclass of int
isinstance_int(v) == v.t \in {"int", "bool"}

\* 0 <= evaluation["score"] <= 100
score_in_range(n) == 0 <= n /\ n <= 100

\* len(reddit_id) < 6 or len(reddit_id) > 10
bad_id_length(s) == Len(s) < 6 \/ Len(s) > 10

validate_evaluation(evaluation) ==
    IF \E k \in 1..Len(required_fields) :
           evaluation[required_fields[k]] = Absent
    THEN FALSE
    ELSE IF \/ ~isinstance_str(evaluation.reddit_id)
            \/ bad_id_length(evaluation.reddit_id.s)
    THEN FALSE
    ELSE IF \/ ~isinstance_int(evaluation.score)
            \/ ~score_in_range(evaluation.score.n)
    THEN FALSE
    ELSE IF ~(/\ isinstance_str(evaluation.category)
              /\ evaluation.category.s \in CATEGORIES)
    THEN FALSE
    ELSE IF ~(/\ isinstance_str(evaluation.target_audience)
              /\ evaluation.target_audience.s \in TARGET_AUDIENCES)
    THEN FALSE
    ELSE TRUE

-----------------------------------------------------------------------------
(* The store: insert_evaluations (database.py)                             *)

\* The row an accepted evaluation becomes in stories_evaluations.
EvaluationRow(eval_dict) ==
    [reddit_id |-> eval_dict.reddit_id.s, score |-> eval_dict.score.n,
     category |-> eval_dict.category.s,
     target_audience |-> eval_dict.target_audience.s]

StoredIds(table) == {row.reddit_id : row \in table}

\* INSERT ... ON CONFLICT DO NOTHING of one row; reddit_id is the primary key.
InsertAlways(table, row) == table \cup {row}

InsertOrReplace(table, row) ==
    {r \in table : r.reddit_id # row.reddit_id} \cup {row}

InsertOrIgnore(table, row) ==
    IF row.reddit_id \in StoredIds(table) THEN table ELSE table \cup {row}

\* The rows of `evaluations` from the k-th on, inserted one after the other;
\* the inserts of the ids in `failing` raise.  rowcount counts the rows that
\* were added.
RECURSIVE InsertRows(_, _, _, _, _)
InsertRows(table, evaluations, k, failing, rowcount) ==
    IF k > Len(evaluations)
    THEN [table |-> table, rowcount |-> rowcount]
    ELSE LET row == EvaluationRow(evaluations[k])
             next == IF row.reddit_id \in failing
                     THEN table ELSE InsertOrIgnore(table, row)
         IN  InsertRows(next, evaluations, k + 1, failing,
                        IF next = table THEN rowcount ELSE rowcount + 1)

\* What the database does to one insert_evaluations: which backend is
\* configured, whether the bulk statement and the commit go through, and
\* the ids whose single insert raises in SQLite's fallback.
StoreOk == [backend |-> "sqlite", bulk_ok |-> TRUE, commit_ok |-> TRUE,
            failing |-> {}]

\* _insert_evaluations_batch: the bulk insert, and for SQLite the fallback
\* to single inserts after a rollback.  raised: the exception leaves it.
insert_evaluations_batch(table, evaluations, store) ==
    IF store.bulk_ok
    THEN [raised |-> FALSE] @@ InsertRows(table, evaluations, 1, {}, 0)
    ELSE IF store.backend = "sqlite"
    THEN [raised |-> FALSE]
             @@ InsertRows(table, evaluations, 1, store.failing, 0)
    ELSE [raised |-> TRUE, table |-> table, rowcount |-> 0]

\* insert_evaluations: the number of rows inserted, 0 when anything raised
\* (nothing is committed then).
insert_evaluations(table, evaluations, store) ==
    IF evaluations = <<>>
    THEN [table |-> table, count |-> 0]
    ELSE LET done == insert_evaluations_batch(table, evaluations, store)
         IN  IF done.raised \/ ~store.commit_ok
             THEN [table |-> table, count |-> 0]
             ELSE [table |-> done.table, count |-> done.rowcount]

-----------------------------------------------------------------------------
(* process_batch                                                           *)

\* What call_gemini does: it raises, or returns the value json.loads made
\* of the response: a list of elements, or something else.
GeminiRaises == [raised |-> TRUE, is_list |-> FALSE, elems |-> <<>>]
GeminiNotList == [raised |-> FALSE, is_list |-> FALSE, elems |-> <<>>]
GeminiList(elems) == [raised |-> FALSE, is_list |-> TRUE, elems |-> elems]

\* dict(evaluation) raises TypeError (ValueError) for a value that is no
\* mapping: a number, a string, a boolean, null.
dict_raises(evaluation) == ~evaluation.obj

\* if reddit_id in batch_reddit_ids
in_batch_unchecked(reddit_id, batch_reddit_ids) == TRUE

in_batch(reddit_id, batch_reddit_ids) == reddit_id \in batch_reddit_ids

\* The loop over the response from its k-th element on.
RECURSIVE EvaluationLoop(_, _, _, _, _)
EvaluationLoop(evaluations, k, batch_reddit_ids, valid, evaluated) ==
    LET valid_evaluations == valid
        evaluated_reddit_ids == evaluated
    IN
    IF k > Len(evaluations)
    THEN [raised |-> FALSE, valid_evaluations |-> valid_evaluations,
          evaluated_reddit_ids |-> evaluated_reddit_ids]
    ELSE LET evaluation == evaluations[k] IN
         IF dict_raises(evaluation)
         THEN [raised |-> TRUE, valid_evaluations |-> valid_evaluations,
               evaluated_reddit_ids |-> evaluated_reddit_ids]
         ELSE IF /\ validate_evaluation(evaluation)
                 /\ in_batch(evaluation.reddit_id.s, batch_reddit_ids)
         THEN EvaluationLoop(evaluations, k + 1, batch_reddit_ids,
                  Append(valid_evaluations, evaluation),
                  evaluated_reddit_ids \cup {evaluation.reddit_id.s})
         ELSE EvaluationLoop(evaluations, k + 1, batch_reddit_ids,
                  valid_evaluations, evaluated_reddit_ids)

\* What one process_batch did: ret is "True", "False" or "raised" (an
\* exception left it), passed the list it handed to insert_evaluations,
\* missing_ids the set it computed (when it got that far), table the rows
\* of stories_evaluations afterwards.
Outcome(ret, store_called, passed, missing_computed, missing_ids, table) ==
    [ret |-> ret, store_called |-> store_called, passed |-> passed,
     missing_computed |-> missing_computed, missing_ids |-> missing_ids,
     table |-> table]

\* return inserted_count > 0
inserted_some(inserted_count) ==
    IF inserted_count > 0 THEN "True" ELSE "False"

process_batch(batch, gemini, store, table) ==
    IF gemini.raised
    THEN Outcome("False", FALSE, <<>>, FALSE, {}, table)
    ELSE IF ~gemini.is_list
    THEN Outcome("False", FALSE, <<>>, FALSE, {}, table)
    ELSE IF Len(gemini.elems) = 0
    THEN Outcome("False", FALSE, <<>>, FALSE, {}, table)
    ELSE LET batch_reddit_ids == {batch[k].reddit_id : k \in 1..Len(batch)}
             loop == EvaluationLoop(gemini.elems, 1, batch_reddit_ids,
                                    <<>>, {})
             missing_ids == batch_reddit_ids \ loop.evaluated_reddit_ids
         IN  IF loop.raised
             THEN Outcome("raised", FALSE, <<>>, FALSE, {}, table)
             ELSE IF loop.valid_evaluations # <<>>
             THEN LET done == insert_evaluations(table,
                                  loop.valid_evaluations, store)
                  IN  Outcome(inserted_some(done.count), TRUE,
                              loop.valid_evaluations, TRUE, missing_ids,
                              done.table)
             ELSE Outcome("False", FALSE, <<>>, TRUE, missing_ids, table)

NoCall ==
    [batch |-> <<>>, gemini |-> GeminiRaises, store |-> StoreOk,
     before |-> {}]
        @@ Outcome("False", FALSE, <<>>, FALSE, {}, {})

\* The scraper's run over n configured subreddits: feeds holds, for each
\* subreddit scraped so far, what the content source did; the counters
\* are total_new_stories and total_duplicates.
ScrapeRun(n, feeds, total_new_stories, total_duplicates) ==
    [n |-> n, feeds |-> feeds, total_new_stories |-> total_new_stories,
     total_duplicates |-> total_duplicates]

NoScrape == ScrapeRun(0, <<>>, 0, 0)

\* The limit handed to get_unevaluated_stories: None, or an integer.
NoLimit == [given |-> FALSE, n |-> 0]

Limit(n) == [given |-> TRUE, n |-> n]

\* A call of insert_story (story; inserted: what it returned), of
\* insert_evaluations (evaluations; count: what it returned) or of
\* get_unevaluated_stories (limit; fetched: what it returned), and the two
\* tables as they were before it.
StoreCall(name, story, evaluations, inserted, count, limit, fetched) ==
    [name |-> name, story |-> story, evaluations |-> evaluations,
     inserted |-> inserted, count |-> count, limit |-> limit,
     fetched |-> fetched]

NoStory == StoryData("", "", Text(0, 0), 0, NoFlair)

NoOp ==
    [stories_before |-> {}, evaluations_before |-> {}]
        @@ StoreCall("none", NoStory, <<>>, FALSE, 0, NoLimit, <<>>)

-----------------------------------------------------------------------------
(* The planner on its own: a list of stories is put together, one story   *)
(* at a time, and create_batches is applied to it.                        *)

\* reddit ids, in the order the stories of the list get them
IdPool == <<
    "s00001", "s00002", "s00003", "s00004", "s00005", "s00006",
    "s00007", "s00008", "s00009", "s00010", "s00011", "s00012",
    "s00013", "s00014", "s00015", "s00016", "s00017", "s00018",
    "s00019", "s00020", "s00021", "s00022", "s00023", "s00024"
    >>

\* The contents a story of the list may have: a filler (20 of them fit the
\* token budget), a medium one (two of them do not fit together) and an
\* oversized one (it does not fit alone; it is shorter than the medium one).
Filler == [content |-> Text(9000, 1500), flair |-> NoFlair]
Medium == [content |-> Text(250000, 20000), flair |-> Text(12, 2)]
Oversized == [content |-> Text(200000, 40000), flair |-> NoFlair]
HeavyKinds == {Medium, Oversized}
Kinds == {Filler} \cup HeavyKinds

IsHeavy(story) ==
    [content |-> story.content, flair |-> story.flair] \in HeavyKinds

NumHeavy(list) == Cardinality({j \in 1..Len(list) : IsHeavy(list[j])})

PlanInit ==
    /\ pc = "input"
    /\ stories = <<>>
    /\ batches = <<>>
    /\ cand = NoCandidate
    /\ verdict = FALSE
    /\ stories_table = {}
    /\ evaluations_table = {}
    /\ call = NoCall
    /\ op = NoOp
    /\ batch_no = 0
    /\ failures = 0
    /\ total_processed = 0
    /\ trace = <<>>
    /\ engine = "none"
    /\ scrape = NoScrape

\* the caller's list grows by one story
PlanAdd ==
    /\ pc = "input"
    /\ Len(stories) < MaxStories
    /\ \E kind \in Kinds :
          /\ kind \in HeavyKinds => NumHeavy(stories) < MaxHeavy
          /\ stories' = Append(stories,
                 StoryData(IdPool[Len(stories) + 1], "tifu", kind.content,
                           1700000000 + Len(stories), kind.flair))
    /\ UNCHANGED <<scrape, pc, batches, valVars, storeVars, call, runVars>>

\* batches = self.create_batches(stories)
PlanBatches ==
    /\ pc = "input"
    /\ batches' = create_batches(stories)
    /\ pc' = "planned"
    /\ UNCHANGED <<scrape, stories, valVars, storeVars, call, runVars>>

PlanNext == PlanAdd \/ PlanBatches

SpecPlan == PlanInit /\ [][PlanNext]_vars

-----------------------------------------------------------------------------
(* The validator on its own: validate_evaluation is applied to a record.  *)

IdValues ==
    {Absent, JsonNull, JsonInt(123456), JsonStr(""), JsonStr("s0001"),
     JsonStr("s00001"), JsonStr("s000000010"), JsonStr("s0000000011")}
ScoreValues ==
    {Absent, JsonNull, JsonInt(0 - 1), JsonInt(0), JsonInt(55), JsonInt(100),
     JsonInt(101), JsonStr("55"), JsonFloat, JsonBool(1), JsonBool(0)}
CategoryValues ==
    {Absent, JsonNull, JsonInt(3), JsonStr("humor"), JsonStr("uncategorized"),
     JsonStr("Humor"), JsonStr("teens")}
AudienceValues ==
    {Absent, JsonNull, JsonInt(3), JsonStr("general"), JsonStr("teens"),
     JsonStr("adults"), JsonStr("humor")}

ValInit ==
    /\ pc = "candidate"
    /\ stories = <<>>
    /\ batches = <<>>
    /\ verdict = FALSE
    /\ stories_table = {}
    /\ evaluations_table = {}
    /\ call = NoCall
    /\ op = NoOp
    /\ batch_no = 0
    /\ failures = 0
    /\ total_processed = 0
    /\ trace = <<>>
    /\ engine = "none"
    /\ scrape = NoScrape
    /\ \E rid \in IdValues, score \in ScoreValues,
          category \in CategoryValues, audience \in AudienceValues :
          cand = Object(rid, score, category, audience)

\* self.validate_evaluation(dict(evaluation))
ValValidate ==
    /\ pc = "candidate"
    /\ verdict' = validate_evaluation(cand)
    /\ pc' = "validated"
    /\ UNCHANGED <<scrape, planVars, cand, storeVars, call, runVars>>

ValNext == ValValidate

SpecVal == ValInit /\ [][ValNext]_vars

-----------------------------------------------------------------------------
(* process_batch on its own: one batch, a store that may already hold     *)
(* evaluations, one response.                                             *)

\* an id no story of the store has
ForeignId == "zz9999"

BatchOf(n) ==
    [k \in 1..n |-> StoryData(IdPool[k], "tifu", Filler.content,
                              1700000000 + k, NoFlair)]

BatchIds(batch) == {batch[k].reddit_id : k \in 1..Len(batch)}

\* a row stored by an earlier run
OldRow(id) ==
    [reddit_id |-> id, score |-> 10, category |-> "drama",
     target_audience |-> "mature"]

ValidFor(id, score) ==
    Object(JsonStr(id), JsonInt(score), JsonStr("humor"), JsonStr("general"))

\* The elements a response is made of: a valid record for each story, a
\* second one for the first story, one for an id that was not sent, a record
\* with a score out of range, one without category, and a value that is no
\* object.
Elements ==
    {ValidFor(IdPool[k], 55) : k \in 1..MaxBatch}
        \cup {ValidFor(IdPool[1], 70), ValidFor(ForeignId, 55),
              Object(JsonStr(IdPool[1]), JsonInt(101), JsonStr("humor"),
                     JsonStr("general")),
              Object(JsonStr(IdPool[2]), JsonInt(55), Absent,
                     JsonStr("general")),
              NonObject}

Responses == UNION {[1..n -> Elements] : n \in 0..MaxResp}

GeminiOutcomes ==
    {GeminiRaises, GeminiNotList} \cup {GeminiList(r) : r \in Responses}

StoreOutcomes ==
    {StoreOk,
     [backend |-> "postgresql", bulk_ok |-> TRUE, commit_ok |-> TRUE,
      failing |-> {}],
     [backend |-> "postgresql", bulk_ok |-> FALSE, commit_ok |-> TRUE,
      failing |-> {}],
     [backend |-> "sqlite", bulk_ok |-> TRUE, commit_ok |-> FALSE,
      failing |-> {}]}
        \cup {[backend |-> "sqlite", bulk_ok |-> FALSE, commit_ok |-> TRUE,
               failing |-> S] :
                 S \in SUBSET {IdPool[k] : k \in 1..MaxBatch}}

BatchInit ==
    /\ pc = "batch"
    /\ stories = <<>>
    /\ \E n \in 1..MaxBatch : batches = <<BatchOf(n)>>
    /\ cand = NoCandidate
    /\ verdict = FALSE
    /\ stories_table = Range(BatchOf(MaxBatch))
    /\ \E S \in SUBSET {IdPool[k] : k \in 1..MaxBatch} :
          evaluations_table = {OldRow(id) : id \in S}
    /\ call = NoCall
    /\ op = NoOp
    /\ batch_no = 1
    /\ failures = 0
    /\ total_processed = 0
    /\ trace = <<>>
    /\ engine = "none"
    /\ scrape = NoScrape

\* success = self.process_batch(batch)
BatchProcess ==
    /\ pc = "batch"
    /\ \E gemini \in GeminiOutcomes, store \in StoreOutcomes :
          LET out == process_batch(batches[1], gemini, store,
                                   evaluations_table)
          IN  /\ call' = [batch |-> batches[1], gemini |-> gemini,
                          store |-> store, before |-> evaluations_table]
                             @@ out
              /\ evaluations_table' = out.table
    /\ pc' = "processed"
    /\ UNCHANGED <<scrape, planVars, valVars, stories_table, op, runVars>>

BatchNext == BatchProcess

SpecBatch == BatchInit /\ [][BatchNext]_vars

-----------------------------------------------------------------------------
(* The store's stories, and the evaluator's run                            *)

\* insert_story: INSERT of one row; a duplicate key raises IntegrityError
\* and the row is not stored.
insert_story_replacing(table, story) ==
    [table |-> {row \in table : row.reddit_id # story.reddit_id}
                   \cup {story},
     inserted |-> story.reddit_id \notin {row.reddit_id : row \in table}]

insert_story(table, story) ==
    IF story.reddit_id \in {row.reddit_id : row \in table}
    THEN [table |-> table, inserted |-> FALSE]
    ELSE [table |-> table \cup {story}, inserted |-> TRUE]

\* ORDER BY s.created_utc DESC
RECURSIVE ByRecency(_)
ByRecency(rows) ==
    IF rows = {} THEN <<>>
    ELSE LET newest == CHOOSE r \in rows :
                 \A o \in rows : o.created_utc <= r.created_utc
         IN  <<newest>> \o ByRecency(rows \ {newest})

\* if limit: (None and 0 are both false)
truthy(limit) == limit.given /\ limit.n # 0

\* get_unevaluated_stories: the stories without an evaluation (LEFT JOIN ...
\* WHERE se.reddit_id IS NULL), newest first, LIMIT limit when limit is
\* neither None nor 0.
get_unevaluated_stories_all(table, evaluations, limit) ==
    LET ordered == ByRecency(table)
    IN  IF truthy(limit) /\ limit.n < Len(ordered)
        THEN SubSeq(ordered, 1, limit.n) ELSE ordered

get_unevaluated_stories(table, evaluations, limit) ==
    LET rows == {row \in table :
                    row.reddit_id \notin StoredIds(evaluations)}
        ordered == ByRecency(rows)
    IN  IF truthy(limit) /\ limit.n < Len(ordered)
        THEN SubSeq(ordered, 1, limit.n) ELSE ordered

\* run: for i, batch in enumerate(batches, 1)
batch_of_turn_reversed(list, i) == list[Len(list) + 1 - i]

batch_of_turn(list, i) == list[i]

\* run: the for loop goes to the next batch
next_turn_stuck(i) == i

next_turn(i) == i + 1

\* run: success = self.process_batch(batch), and success = False when
\* process_batch raised
run_success_uncaught(ret) == ret # "False"

run_success(ret) == ret = "True"

\* run: failures = 0 on success, failures += 1 otherwise
run_failures_uncounted(success, count) == IF success THEN 0 ELSE count

run_failures_never_reset(success, count) ==
    IF success THEN count ELSE count + 1

run_failures(success, count) == IF success THEN 0 ELSE count + 1

\* run: if failures >= MAX_RETRIES: break
run_breaks_late(success, count) == ~success /\ count > MAX_RETRIES

run_breaks(success, count) == ~success /\ count >= MAX_RETRIES

\* An entry of trace: a call of call_gemini ("score") or insert_evaluations
\* ("merge") for the batch with these ids, the end of process_batch
\* ("return", ok: it returned True), or a time.sleep ("sleep").
Event(ev, ids, ok) == [ev |-> ev, ids |-> ids, ok |-> ok]

SleepEvent == Event("sleep", <<>>, TRUE)

\* The calls one process_batch makes: call_gemini once, insert_evaluations
\* once when it has valid evaluations, and then it returns or raises.
batch_events_retrying(batch, out) ==
    LET ids == [k \in 1..Len(batch) |-> batch[k].reddit_id] IN
    <<Event("score", ids, TRUE)>>
        \o (IF out.ret = "True" THEN <<>> ELSE <<Event("score", ids, TRUE)>>)
        \o (IF out.store_called THEN <<Event("merge", ids, TRUE)>> ELSE <<>>)
        \o <<Event("return", ids, out.ret = "True")>>

batch_events(batch, out) ==
    LET ids == [k \in 1..Len(batch) |-> batch[k].reddit_id] IN
    <<Event("score", ids, TRUE)>>
        \o (IF out.store_called THEN <<Event("merge", ids, TRUE)>> ELSE <<>>)
        \o <<Event("return", ids, out.ret = "True")>>

\* run: if i < len(batches), the delay before the next batch
delay_always(i, n) == TRUE

delay_follows(i, n) == i < n

\* The contents of the stories the scraper stores
StoredKinds == {Filler, Oversized}

\* The responses a batch of a run may get: the call raises, the response is
\* no list, the empty list, a list holding a value that is no object, a
\* valid record for every story of the batch, one for its first story only,
\* one for an id that was not sent, and two valid records with different
\* scores for its first story.
RunGemini(batch) ==
    {GeminiRaises, GeminiNotList, GeminiList(<<>>),
     GeminiList(<<NonObject>>),
     GeminiList([k \in 1..Len(batch) |-> ValidFor(batch[k].reddit_id, 55)]),
     GeminiList(<<ValidFor(batch[1].reddit_id, 55)>>),
     GeminiList(<<ValidFor(ForeignId, 55)>>),
     GeminiList(<<ValidFor(batch[1].reddit_id, 55),
                  ValidFor(batch[1].reddit_id, 70)>>)}

RunStores ==
    {StoreOk,
     [backend |-> "postgresql", bulk_ok |-> FALSE, commit_ok |-> TRUE,
      failing |-> {}]}

Init ==
    /\ pc = "idle"
    /\ stories = <<>>
    /\ batches = <<>>
    /\ cand = NoCandidate
    /\ verdict = FALSE
    /\ stories_table = {}
    /\ evaluations_table = {}
    /\ call = NoCall
    /\ op = NoOp
    /\ batch_no = 0
    /\ failures = 0
    /\ total_processed = 0
    /\ trace = <<>>
    /\ engine = "none"
    /\ scrape = NoScrape

\* the scraper stores the next story it found: db.insert_story(...)
InsertStory ==
    /\ pc = "idle"
    /\ Cardinality(stories_table) < MaxStored
    /\ \E kind \in StoredKinds :
          LET n == Cardinality(stories_table) + 1
              story == StoryData(IdPool[n], "tifu", kind.content,
                                 1700000000 + n, kind.flair)
          IN  stories_table' = insert_story(stories_table, story).table
    /\ UNCHANGED <<scrape, pc, planVars, valVars, evaluations_table, op, call,
                   runVars>>

\* run(max_stories) up to the batch loop: the store is connected, the
\* unevaluated stories are fetched and cut into batches.  run returns when
\* the connection fails, when the fetch raises and when there are no
\* stories.
RunStart ==
    /\ pc = "idle"
    /\ \E connect_ok \in BOOLEAN, fetch_ok \in BOOLEAN,
          max_stories \in 0..MaxStored :
          LET fetched == get_unevaluated_stories(stories_table,
                             evaluations_table, Limit(max_stories))
          IN  IF ~connect_ok
              THEN /\ engine' = "none"
                   /\ pc' = "idle"
                   /\ UNCHANGED <<planVars, batch_no, failures,
                                  total_processed, trace>>
              ELSE IF ~fetch_ok \/ fetched = <<>>
              THEN /\ engine' = "open"
                   /\ pc' = "idle"
                   /\ UNCHANGED <<planVars, batch_no, failures,
                                  total_processed, trace>>
              ELSE /\ engine' = "open"
                   /\ stories' = fetched
                   /\ batches' = create_batches(fetched)
                   /\ pc' = "loop"
                   /\ batch_no' = 1
                   /\ failures' = 0
                   /\ total_processed' = 0
                   /\ trace' = <<>>
    /\ UNCHANGED <<scrape, valVars, storeVars, call>>

\* One turn of the batch loop of run: process_batch (an exception it raises
\* is caught and counts as a failure), the counters, the break.
RunBatch ==
    /\ pc = "loop"
    /\ batch_no <= Len(batches)
    /\ LET batch == batch_of_turn(batches, batch_no) IN
       \E gemini \in RunGemini(batch), store \in RunStores :
          LET out == process_batch(batch, gemini, store, evaluations_table)
              success == run_success(out.ret)
          IN  /\ call' = [batch |-> batch, gemini |-> gemini,
                          store |-> store, before |-> evaluations_table]
                             @@ out
              /\ evaluations_table' = out.table
              /\ total_processed' = IF success
                                    THEN total_processed + Len(batch)
                                    ELSE total_processed
              /\ failures' = run_failures(success, failures)
              /\ trace' = trace \o batch_events(batch, out)
              /\ pc' = IF run_breaks(success, failures') THEN "closing"
                       ELSE IF delay_follows(batch_no, Len(batches))
                       THEN "sleep"
                       ELSE "closing"
    /\ UNCHANGED <<scrape, planVars, valVars, stories_table, op, batch_no,
                   engine>>

\* time.sleep(BATCH_DELAY_SECONDS), then the next batch
RunSleep ==
    /\ pc = "sleep"
    /\ batch_no' = next_turn(batch_no)
    /\ trace' = Append(trace, SleepEvent)
    /\ pc' = "loop"
    /\ UNCHANGED <<scrape, planVars, valVars, storeVars, call, failures,
                   total_processed, engine>>

\* the end of run: self.db_manager.close(); its locals are gone
RunClose ==
    /\ pc = "closing"
    /\ pc' = "idle"
    /\ stories' = <<>>
    /\ batches' = <<>>
    /\ call' = NoCall
    /\ batch_no' = 0
    /\ failures' = 0
    /\ total_processed' = 0
    /\ trace' = <<>>
    /\ engine' = "closed"
    /\ UNCHANGED <<scrape, valVars, storeVars>>

Next == InsertStory \/ RunStart \/ RunBatch \/ RunSleep \/ RunClose

Spec == Init /\ [][Next]_vars

-----------------------------------------------------------------------------
(* The store on its own: stories are inserted and evaluations merged, for  *)
(* a few reddit_ids, again and again                                       *)

Keys == {IdPool[k] : k \in 1..MaxKeys}

\* The stories handed to insert_story: for each id two stories that differ
\* in their content.
KeyStories ==
    {StoryData(IdPool[k], "tifu", kind.content, 1700000000 + k, kind.flair) :
        k \in 1..MaxKeys, kind \in StoredKinds}

\* The lists handed to insert_evaluations: one or two valid evaluations of
\* stored stories, two scores for each story, an id possibly twice.
KeyEvaluations(ids) ==
    LET elems == {ValidFor(id, score) : id \in ids, score \in {55, 70}}
    IN  {<<e>> : e \in elems} \cup {<<e, f>> : e \in elems, f \in elems}

\* The store accepts the merge: by the bulk insert, or for SQLite by
\* single inserts after a bulk insert that failed.
KeyStores ==
    {StoreOk,
     [backend |-> "sqlite", bulk_ok |-> FALSE, commit_ok |-> TRUE,
      failing |-> {}]}

StoreInit ==
    /\ pc = "store"
    /\ stories = <<>>
    /\ batches = <<>>
    /\ cand = NoCandidate
    /\ verdict = FALSE
    /\ stories_table = {}
    /\ evaluations_table = {}
    /\ op = NoOp
    /\ call = NoCall
    /\ batch_no = 0
    /\ failures = 0
    /\ total_processed = 0
    /\ trace = <<>>
    /\ engine = "none"
    /\ scrape = NoScrape

\* db.insert_story(...)
StoreInsertStory ==
    /\ pc = "store"
    /\ \E story \in KeyStories :
          LET done == insert_story(stories_table, story)
          IN  /\ stories_table' = done.table
              /\ op' = [stories_before |-> stories_table,
                        evaluations_before |-> evaluations_table]
                           @@ StoreCall("insert_story", story, <<>>,
                                        done.inserted, 0, NoLimit, <<>>)
    /\ UNCHANGED <<scrape, pc, planVars, valVars, evaluations_table, call,
                   runVars>>

\* self.db_manager.insert_evaluations(valid_evaluations)
StoreInsertEvaluations ==
    /\ pc = "store"
    /\ stories_table # {}
    /\ \E evaluations \in KeyEvaluations(StoredIds(stories_table)),
          store \in KeyStores :
          LET done == insert_evaluations(evaluations_table, evaluations,
                                         store)
          IN  /\ evaluations_table' = done.table
              /\ op' = [stories_before |-> stories_table,
                        evaluations_before |-> evaluations_table]
                           @@ StoreCall("insert_evaluations", NoStory,
                                        evaluations, FALSE, done.count,
                                        NoLimit, <<>>)
    /\ UNCHANGED <<scrape, pc, planVars, valVars, stories_table, call,
                   runVars>>

\* self.db_manager.get_unevaluated_stories(limit)
StoreFetch ==
    /\ pc = "store"
    /\ \E limit \in {NoLimit} \cup {Limit(n) : n \in 0..MaxKeys} :
          op' = [stories_before |-> stories_table,
                 evaluations_before |-> evaluations_table]
                    @@ StoreCall("get_unevaluated_stories", NoStory, <<>>,
                                 FALSE, 0, limit,
                                 get_unevaluated_stories(stories_table,
                                     evaluations_table, limit))
    /\ UNCHANGED <<scrape, pc, planVars, valVars, stories_table,
                   evaluations_table, call, runVars>>

StoreNext == StoreInsertStory \/ StoreInsertEvaluations \/ StoreFetch

SpecStore == StoreInit /\ [][StoreNext]_vars

-----------------------------------------------------------------------------
(* The scraper's run (scraper.py)                                          *)

\* What the content source does for one subreddit: it delivers the posts
\* that pass the scraper's filters, and then ends or raises.
Feed(posts, raises) == [posts |-> posts, raises |-> raises]

\* The posts of the k-th subreddit: none, or one of a few stories; every
\* subreddit has the story of the first key among them.
Feeds(k) ==
    LET name == IF k = 1 THEN "tifu" ELSE "confession"
        found == {StoryData(IdPool[j], name, kind.content, 1700000000 + j,
                            kind.flair) :
                     j \in {1} \cup {i \in 1..MaxKeys : i >= k},
                     kind \in StoredKinds}
    IN  {Feed(posts, raises) :
            posts \in {<<>>} \cup {<<story>> : story \in found},
            raises \in BOOLEAN}

\* get_stories_from_subreddit: the stories collected, also when the source
\* raised (the exception is caught and the list returned).
get_stories_from_subreddit_uncaught(feed) ==
    [raised |-> feed.raises, stories |-> <<>>]

get_stories_from_subreddit(feed) ==
    [raised |-> FALSE, stories |-> feed.posts]

\* for story in stories: db.insert_story(...), from the k-th story on
RECURSIVE StoreStories(_, _, _, _, _)
StoreStories(table, found, k, new, duplicates) ==
    IF k > Len(found)
    THEN [table |-> table, new |-> new, duplicates |-> duplicates]
    ELSE LET done == insert_story(table, found[k])
         IN  StoreStories(done.table, found, k + 1,
                          IF done.inserted THEN new + 1 ELSE new,
                          IF done.inserted THEN duplicates
                          ELSE duplicates + 1)

ScrapeInit ==
    /\ pc = "scrape_idle"
    /\ stories = <<>>
    /\ batches = <<>>
    /\ cand = NoCandidate
    /\ verdict = FALSE
    /\ stories_table = {}
    /\ evaluations_table = {}
    /\ op = NoOp
    /\ call = NoCall
    /\ batch_no = 0
    /\ failures = 0
    /\ total_processed = 0
    /\ trace = <<>>
    /\ engine = "none"
    /\ scrape = NoScrape

\* run(config_file) up to its loop: the configuration names n subreddits
\* (it returns at once when it names none), the store is connected
ScrapeStart ==
    /\ pc = "scrape_idle"
    /\ \E n \in 0..MaxSubs :
          /\ scrape' = ScrapeRun(n, <<>>, 0, 0)
          /\ pc' = IF n = 0 THEN "scrape_idle" ELSE "scraping"
    /\ UNCHANGED <<planVars, valVars, storeVars, call, runVars>>

\* One turn of for subreddit_name in subreddits: the subreddit is scraped
\* and its stories are stored; an exception ends the loop.
ScrapeSubreddit ==
    /\ pc = "scraping"
    /\ Len(scrape.feeds) < scrape.n
    /\ \E feed \in Feeds(Len(scrape.feeds) + 1) :
          LET got == get_stories_from_subreddit(feed)
              done == StoreStories(stories_table, got.stories, 1,
                                   scrape.total_new_stories,
                                   scrape.total_duplicates)
          IN  IF got.raised
              THEN /\ pc' = "scrape_failed"
                   /\ UNCHANGED <<scrape, stories_table>>
              ELSE /\ stories_table' = done.table
                   /\ scrape' = ScrapeRun(scrape.n,
                                     Append(scrape.feeds, feed),
                                     done.new, done.duplicates)
                   /\ pc' = "scraping"
    /\ UNCHANGED <<planVars, valVars, evaluations_table, op, call, runVars>>

\* the end of the loop: finally: db.close().  The next run starts from the
\* stored stories.
ScrapeClose ==
    /\ pc = "scraping"
    /\ Len(scrape.feeds) = scrape.n
    /\ pc' = "scrape_closed"
    /\ UNCHANGED <<scrape, planVars, valVars, storeVars, call, runVars>>

\* the scraper is run again
ScrapeAgain ==
    /\ pc = "scrape_closed"
    /\ Cardinality(stories_table) < MaxKeys
    /\ pc' = "scrape_idle"
    /\ scrape' = NoScrape
    /\ UNCHANGED <<planVars, valVars, storeVars, call, runVars>>

ScrapeNext == ScrapeStart \/ ScrapeSubreddit \/ ScrapeClose \/ ScrapeAgain

SpecScrape == ScrapeInit /\ [][ScrapeNext]_vars

-----------------------------------------------------------------------------
(* Properties of create_batches                                            *)

RECURSIVE Flatten(_)
Flatten(bs) == IF bs = <<>> THEN <<>> ELSE Head(bs) \o Flatten(Tail(bs))

RECURSIVE BatchTokens(_)
BatchTokens(batch) ==
    IF batch = <<>> THEN 0
    ELSE story_tokens(Head(batch)) + BatchTokens(Tail(batch))

\* the place of a story in the input list (its ids are distinct)
InputIndex(story) == CHOOSE i \in 1..Len(stories) : stories[i] = story

\* C1: every batch is non-empty and the batches together hold every story
\* of the input exactly once and nothing else.
C1_BatchesPartitionInput ==
    pc = "planned" =>
        LET flat == Flatten(batches) IN
        /\ \A b \in 1..Len(batches) : batches[b] # <<>>
        /\ Len(flat) = Len(stories)
        /\ \A i \in 1..Len(stories) :
              Cardinality({p \in 1..Len(flat) : flat[p] = stories[i]}) = 1
        /\ \A p \in 1..Len(flat) : flat[p] \in Range(stories)

\* several batches were made from a list holding stories of equal length
C1_Witness ==
    /\ pc = "planned"
    /\ Len(batches) >= 3
    /\ \E i, j \in 1..Len(stories) :
          i # j /\ stories[i].content.len = stories[j].content.len

\* C2: no batch holds more than MAX_STORIES_PER_BATCH stories, and a batch
\* over the token budget is one story that is over the budget by itself.
C2_BatchWithinBudgets ==
    pc = "planned" =>
        \A b \in 1..Len(batches) :
            /\ Len(batches[b]) <= MAX_STORIES_PER_BATCH
            /\ BatchTokens(batches[b]) > MAX_TOKENS_PER_BATCH =>
                  /\ Len(batches[b]) = 1
                  /\ story_tokens(batches[b][1]) > MAX_TOKENS_PER_BATCH

\* a batch was closed on the count with MAX_STORIES_PER_BATCH stories, and
\* another batch is over the token budget
C2_Witness ==
    /\ pc = "planned"
    /\ \E b \in 1..Len(batches) : Len(batches[b]) = MAX_STORIES_PER_BATCH
    /\ \E b \in 1..Len(batches) :
          BatchTokens(batches[b]) > MAX_TOKENS_PER_BATCH

\* C3: a story over the token budget by itself is emitted, alone in its
\* batch.
C3_OversizedIsSingleton ==
    pc = "planned" =>
        \A i \in 1..Len(stories) :
            story_tokens(stories[i]) > MAX_TOKENS_PER_BATCH =>
                /\ \E b \in 1..Len(batches) : batches[b] = <<stories[i]>>
                /\ \A b \in 1..Len(batches) :
                      stories[i] \in Range(batches[b]) => Len(batches[b]) = 1

\* an oversized story with shorter stories before it and a longer one
\* behind it in the sorted order
C3_Witness ==
    /\ pc = "planned"
    /\ \E i, j, k \in 1..Len(stories) :
          /\ story_tokens(stories[i]) > MAX_TOKENS_PER_BATCH
          /\ stories[j].content.len < stories[i].content.len
          /\ stories[k].content.len > stories[i].content.len

\* C4: the batches, one after the other, are the input in ascending order
\* of content length, stories of equal length in their input order.
C4_BatchesInStableLengthOrder ==
    pc = "planned" =>
        LET flat == Flatten(batches) IN
        /\ Len(flat) = Len(stories)
        /\ \A p \in 1..Len(flat) : flat[p] \in Range(stories)
        /\ \A p \in 1..(Len(flat) - 1) :
              \/ flat[p].content.len < flat[p + 1].content.len
              \/ /\ flat[p].content.len = flat[p + 1].content.len
                 /\ InputIndex(flat[p]) < InputIndex(flat[p + 1])

\* the input was not in order of length, held stories of equal length, and
\* was cut into several batches
C4_Witness ==
    /\ pc = "planned"
    /\ Len(batches) >= 2
    /\ \E i, j \in 1..Len(stories) :
          i < j /\ stories[i].content.len > stories[j].content.len
    /\ \E i, j \in 1..Len(stories) :
          i < j /\ stories[i].content.len = stories[j].content.len

-----------------------------------------------------------------------------
(* Properties of validate_evaluation                                       *)

\* C5: a record is accepted if and only if it holds the four fields, its
\* reddit_id is a string of 6 to 10 characters, its score an integer from 0
\* to 100, its category one of CATEGORIES and its target_audience one of
\* TARGET_AUDIENCES.
C5_AcceptedIffWellFormed ==
    pc = "validated" =>
        (verdict <=>
            /\ \A k \in 1..Len(required_fields) :
                  cand[required_fields[k]] # Absent
            /\ cand.reddit_id.t = "str"
            /\ Len(cand.reddit_id.s) \in 6..10
            /\ cand.score.t = "int"
            /\ cand.score.n \in 0..100
            /\ cand.category.t = "str"
            /\ cand.category.s \in CATEGORIES
            /\ cand.target_audience.t = "str"
            /\ cand.target_audience.s \in TARGET_AUDIENCES)

-----------------------------------------------------------------------------
(* Properties of process_batch                                             *)

\* a record of the response that passes validate_evaluation and names a
\* story of the batch
ValidInBatch(evaluation, batch) ==
    /\ evaluation.obj
    /\ validate_evaluation(evaluation)
    /\ evaluation.reddit_id.s \in BatchIds(batch)

\* the stories of the batch the response holds a valid record for
Covered(c) ==
    {c.gemini.elems[k].reddit_id.s : k \in
        {j \in 1..Len(c.gemini.elems) :
            ValidInBatch(c.gemini.elems[j], c.batch)}}

\* the store accepted the merge
StoreAccepted(c) == c.store.bulk_ok /\ c.store.commit_ok

\* C6: every evaluation process_batch hands to the store, and every row the
\* call adds, names a story of the batch.
C6_OnlyBatchIdsReachStore ==
    pc = "processed" =>
        /\ \A k \in 1..Len(call.passed) :
              call.passed[k].reddit_id.s \in BatchIds(call.batch)
        /\ StoredIds(evaluations_table \ call.before)
              \subseteq BatchIds(call.batch)

\* the response held a fully valid record for an id that was not sent,
\* beside one that was stored
C6_Witness ==
    /\ pc = "processed"
    /\ call.ret = "True"
    /\ \E k \in 1..Len(call.gemini.elems) :
          /\ call.gemini.elems[k].obj
          /\ validate_evaluation(call.gemini.elems[k])
          /\ call.gemini.elems[k].reddit_id.s \notin BatchIds(call.batch)

\* C7: when the response is a list holding a valid record for a story of
\* the batch, process_batch does not raise, whatever else the list holds,
\* hands every valid in-batch record to the store, and (the store accepting
\* the merge) the stories of these records have a stored evaluation.
C7_BadElementsAreDropped ==
    (/\ pc = "processed"
     /\ call.gemini.is_list
     /\ Covered(call) # {}) =>
        /\ call.ret # "raised"
        /\ \A k \in 1..Len(call.gemini.elems) :
              ValidInBatch(call.gemini.elems[k], call.batch) =>
                  call.gemini.elems[k] \in Range(call.passed)
        /\ StoreAccepted(call) =>
              Covered(call) \subseteq StoredIds(evaluations_table)

\* C8: for a batch of N stories, none evaluated yet, and a response whose
\* valid in-batch records cover M < N of them (the store accepting the
\* merge), the missing set is the N - M uncovered ids, and process_batch
\* returns True when M >= 1 and False when M = 0.
C8_CoverageAccounting ==
    (/\ pc = "processed"
     /\ call.gemini.is_list
     /\ BatchIds(call.batch) \cap StoredIds(call.before) = {}
     /\ StoreAccepted(call)
     /\ Cardinality(Covered(call)) < Len(call.batch)) =>
        /\ call.missing_computed =>
              /\ call.missing_ids = BatchIds(call.batch) \ Covered(call)
              /\ Cardinality(call.missing_ids)
                    = Len(call.batch) - Cardinality(Covered(call))
        /\ call.ret = IF Cardinality(Covered(call)) >= 1
                      THEN "True" ELSE "False"

\* C9: process_batch returns True exactly when the call added a row to the
\* store; it returns False for an empty list, when no record survives
\* validation and reconciliation, and when the store inserts no row.
C9_TrueIffRowPersisted ==
    pc = "processed" =>
        /\ call.ret = "True" <=> evaluations_table # call.before
        /\ (call.gemini.is_list /\ call.gemini.elems = <<>>) =>
              call.ret = "False"
        /\ (call.gemini.is_list /\ Covered(call) = {}) =>
              call.ret = "False"
        /\ (call.store_called /\ evaluations_table = call.before) =>
              call.ret = "False"

-----------------------------------------------------------------------------
(* Properties of run                                                       *)

\* C10: when call_gemini raises or the response is no list, process_batch
\* returns False without calling the store, the stored evaluations stay as
\* they were, and the failure counter of run goes up by one.
C10_FailedCallFailsBatch ==
    [][(/\ pc = "loop"
        /\ pc' # "loop"
        /\ call'.gemini.raised \/ ~call'.gemini.is_list) =>
           /\ call'.ret = "False"
           /\ ~call'.store_called
           /\ call'.passed = <<>>
           /\ evaluations_table' = evaluations_table
           /\ failures' = failures + 1]_vars

\* a third batch in a row failed on a response that is no list, with
\* evaluations of earlier batches in the store
C10_Witness ==
    /\ pc = "closing"
    /\ ~call.gemini.raised
    /\ ~call.gemini.is_list
    /\ failures = MAX_RETRIES
    /\ evaluations_table # {}

\* C11: process_batch returns a boolean and raises nothing, whatever the
\* scoring call returned or raised and whatever the store did to the merge.
C11_ProcessBatchNeverRaises ==
    pc = "processed" => call.ret \in {"True", "False"}

\* the ends of the process_batch calls of the run so far, in order
Returns == SelectSeq(trace, LAMBDA e : e.ev = "return")

\* the MAX_RETRIES batches processed from the k-th on all failed
FailedInARow(k) ==
    /\ k >= 1
    /\ k + MAX_RETRIES - 1 <= Len(Returns)
    /\ \A j \in k..(k + MAX_RETRIES - 1) : ~Returns[j].ok

\* C12: once MAX_RETRIES batches in a row have failed the run has halted:
\* the last of them is the last batch processed, and nothing (no scoring
\* call, no merge, no delay) follows its end.
C12_CircuitBreaker ==
    \A k \in 1..Len(Returns) :
        FailedInARow(k) =>
            /\ Len(Returns) = k + MAX_RETRIES - 1
            /\ trace[Len(trace)].ev = "return"
            /\ pc = "closing"

\* a run of four batches halted on the failure of its first three, the
\* fourth was never processed
C12_Witness ==
    /\ pc = "closing"
    /\ Len(batches) = MAX_RETRIES + 1
    /\ FailedInARow(1)
    /\ batch_no = MAX_RETRIES

\* the number of failed batches at the end of the batches processed
RECURSIVE TrailingFailures(_)
TrailingFailures(rets) ==
    IF rets = <<>> \/ rets[Len(rets)].ok THEN 0
    ELSE 1 + TrailingFailures(SubSeq(rets, 1, Len(rets) - 1))

\* C13: during a run failures is the length of the trailing streak of
\* failed batches (0 after a success), it stays within 0..MAX_RETRIES, and
\* the run ends before its last batch only when the MAX_RETRIES batches
\* processed last all failed.
C13_FailuresAreConsecutive ==
    pc \in {"loop", "sleep", "closing"} =>
        /\ failures = TrailingFailures(Returns)
        /\ failures \in 0..MAX_RETRIES
        /\ (pc = "closing" /\ Len(Returns) < Len(batches)) =>
              FailedInARow(Len(Returns) - MAX_RETRIES + 1)

\* fail, fail, success, fail: three failures, not in a row, and the run
\* went through all its batches
C13_Witness ==
    /\ pc = "closing"
    /\ Len(Returns) = 4
    /\ Len(batches) = 4
    /\ ~Returns[1].ok
    /\ ~Returns[2].ok
    /\ Returns[3].ok
    /\ ~Returns[4].ok
    /\ failures = 1

\* the scoring calls of the run so far, in order
Scores == SelectSeq(trace, LAMBDA e : e.ev = "score")

\* the ids of the stories of a batch, in its order
IdsOf(batch) == [k \in 1..Len(batch) |-> batch[k].reddit_id]

InRun == pc \in {"loop", "sleep", "closing"}

\* C14: the scoring calls of a run are for the batches of create_batches
\* in their order, none skipped; whatever process_batch does for a batch
\* (its merge, its return) comes before the scoring call of the next one;
\* and a run that ends without having scored every batch was halted by the
\* failure threshold.
C14_BatchesInOrderOneAtATime ==
    InRun =>
        /\ Len(Scores) <= Len(batches)
        /\ \A k \in 1..Len(Scores) : Scores[k].ids = IdsOf(batches[k])
        /\ \A p \in 1..Len(trace) :
              trace[p].ev = "score" =>
                  \E r \in (p + 1)..Len(trace) :
                      /\ trace[r].ev = "return"
                      /\ trace[r].ids = trace[p].ids
                      /\ \A m \in (p + 1)..(r - 1) :
                            /\ trace[m].ev = "merge"
                            /\ trace[m].ids = trace[p].ids
        /\ (pc = "closing" /\ Len(Scores) < Len(batches)) =>
              failures >= MAX_RETRIES

\* a run went through four batches, of which some failed and some merged
C14_Witness ==
    /\ pc = "closing"
    /\ Len(batches) = 4
    /\ Len(Scores) = 4
    /\ \E k \in 1..4 : ~Returns[k].ok
    /\ \E k \in 1..4 : Returns[k].ok

\* how many entries of the trace are calls of this kind for these ids
Count(ev, ids) ==
    Cardinality({p \in 1..Len(trace) :
                    trace[p].ev = ev /\ trace[p].ids = ids})

\* C15: every batch processed in a run was scored exactly once and merged
\* at most once, failed or not, so the run made as many scoring calls as
\* it processed batches.
C15_OneScoringCallPerBatch ==
    InRun =>
        /\ Len(Scores) = Len(Returns)
        /\ pc \in {"sleep", "closing"} => Len(Scores) = batch_no
        /\ \A k \in 1..Len(Returns) :
              /\ Count("score", Returns[k].ids) = 1
              /\ Count("merge", Returns[k].ids) <= 1
              /\ Returns[k].ok => Count("merge", Returns[k].ids) = 1

\* a run ended after four batches: two failed without a merge, one failed
\* in its merge, one was stored
C15_Witness ==
    /\ pc = "closing"
    /\ Len(Returns) = 4
    /\ \E i, j, k, l \in 1..4 :
          /\ i # j
          /\ ~Returns[i].ok /\ Count("merge", Returns[i].ids) = 0
          /\ ~Returns[j].ok /\ Count("merge", Returns[j].ids) = 0
          /\ ~Returns[k].ok /\ Count("merge", Returns[k].ids) = 1
          /\ Returns[l].ok

\* C16: in a run a delay comes right after the end of a batch and right
\* before the scoring call of the next one, every scoring call but the
\* first comes right after a delay, and no delay follows the last batch of
\* the plan or the batch the run halts on.
C16_DelayOnlyBetweenBatches ==
    InRun =>
        /\ \A p \in 1..Len(trace) :
              /\ trace[p].ev = "sleep" =>
                    /\ p > 1
                    /\ trace[p - 1].ev = "return"
                    /\ IF p < Len(trace)
                       THEN trace[p + 1].ev = "score"
                       ELSE pc = "loop" /\ batch_no <= Len(batches)
              /\ (trace[p].ev = "score" /\ p > 1) =>
                    trace[p - 1].ev = "sleep"
        /\ pc = "sleep" =>
              /\ batch_no < Len(batches)
              /\ failures < MAX_RETRIES
        /\ pc = "closing" => trace[Len(trace)].ev = "return"

\* a run of four batches halted on its third: a delay followed the first
\* and the second batch, none the third
C16_Witness ==
    /\ pc = "closing"
    /\ Len(batches) = 4
    /\ Len(Returns) = 3
    /\ failures = MAX_RETRIES
    /\ Count("sleep", <<>>) = 2
    /\ trace[Len(trace)].ev = "return"

\* C17: when process_batch raises, run goes on: the batch counts as one
\* failure, run halts if that makes MAX_RETRIES failures in a row, and
\* otherwise goes to the next batch when there is one.
C17_ExceptionIsOneFailure ==
    [][(/\ pc = "loop"
        /\ pc' # "loop"
        /\ call'.ret = "raised") =>
           /\ failures' = failures + 1
           /\ batch_no' = batch_no
           /\ total_processed' = total_processed
           /\ pc' = IF failures' >= MAX_RETRIES THEN "closing"
                    ELSE IF batch_no < Len(batches) THEN "sleep"
                    ELSE "closing"]_vars

\* the second batch of a run raised after the first had failed: run counts
\* two failures and is on its way to the third batch
C17_Witness ==
    /\ pc = "sleep"
    /\ call.ret = "raised"
    /\ batch_no = 2
    /\ failures = 2
    /\ batch_no < Len(batches)

-----------------------------------------------------------------------------
(* Properties of the store                                                 *)

\* no two rows of the table have the same reddit_id
UniqueKey(table) ==
    \A r1, r2 \in table : r1.reddit_id = r2.reddit_id => r1 = r2

\* C18: insert_story of an id that is not stored adds the row and returns
\* True; insert_story of an id that is stored, with the same or other
\* field values, returns False and leaves the table as it was.
C18_InsertStoryIfAbsent ==
    op.name = "insert_story" =>
        /\ UniqueKey(stories_table)
        /\ IF op.story.reddit_id \in StoredIds(op.stories_before)
           THEN /\ ~op.inserted
                /\ stories_table = op.stories_before
           ELSE /\ op.inserted
                /\ stories_table = op.stories_before \cup {op.story}
                /\ Cardinality(stories_table)
                      = Cardinality(op.stories_before) + 1

\* insert_story of a stored id with another content, beside another story
C18_Witness ==
    /\ op.name = "insert_story"
    /\ op.story.reddit_id \in StoredIds(op.stories_before)
    /\ op.story \notin op.stories_before
    /\ ~op.inserted
    /\ Cardinality(stories_table) = 2

\* the ids a list of evaluations names
EvaluatedIds(evaluations) ==
    {evaluations[k].reddit_id.s : k \in 1..Len(evaluations)}

\* C19: insert_evaluations keeps every stored row as it was, keeps one row
\* for each id, returns the number of rows it added (an evaluation of a
\* stored id adds none), and merging the same list again changes nothing
\* and returns 0.
C19_MergeNeverOverwrites ==
    op.name = "insert_evaluations" =>
        /\ op.evaluations_before \subseteq evaluations_table
        /\ UniqueKey(evaluations_table)
        /\ StoredIds(evaluations_table)
              = StoredIds(op.evaluations_before)
                   \cup EvaluatedIds(op.evaluations)
        /\ op.count = Cardinality(evaluations_table)
                         - Cardinality(op.evaluations_before)
        /\ op.count = Cardinality(EvaluatedIds(op.evaluations)
                                     \ StoredIds(op.evaluations_before))
        /\ \A store \in KeyStores :
              LET again == insert_evaluations(evaluations_table,
                                              op.evaluations, store)
              IN  /\ again.table = evaluations_table
                  /\ again.count = 0

\* a list of two was merged: an evaluation of a stored id with another
\* score, which was left alone, and one of a new id, which was added
C19_Witness ==
    /\ op.name = "insert_evaluations"
    /\ Len(op.evaluations) = 2
    /\ op.count = 1
    /\ \E row \in op.evaluations_before :
          /\ row.reddit_id = op.evaluations[1].reddit_id.s
          /\ row.score # op.evaluations[1].score.n
          /\ row \in evaluations_table
    /\ op.evaluations[2].reddit_id.s \notin StoredIds(op.evaluations_before)

-----------------------------------------------------------------------------
(* Properties of the two tables under the scraper and the evaluator        *)

\* C20: every stored evaluation names a stored story, and no story has two
\* stored evaluations.
C20_EvaluationsReferToStories ==
    /\ StoredIds(evaluations_table) \subseteq StoredIds(stories_table)
    /\ UniqueKey(evaluations_table)

\* a response with two valid records of different scores for one story was
\* merged into a store that holds other evaluations, and stories without
\* an evaluation
C20_Witness ==
    /\ pc = "closing"
    /\ call.ret = "True"
    /\ Len(call.gemini.elems) = 2
    /\ call.gemini.elems[1].reddit_id = call.gemini.elems[2].reddit_id
    /\ call.gemini.elems[1].score # call.gemini.elems[2].score
    /\ Cardinality(evaluations_table) >= 2
    /\ Cardinality(stories_table) > Cardinality(evaluations_table)

-----------------------------------------------------------------------------
(* Properties of a batch processed again                                   *)

-----------------------------------------------------------------------------
(* Properties of successive runs                                           *)

\* the stories the run fetched that have a stored evaluation: they had none
\* when the run fetched them
PersistedInRun ==
    {stories[i].reddit_id : i \in 1..Len(stories)}
        \cap StoredIds(evaluations_table)

\* C22: at the end of the batch loop total_processed is the number of
\* stories whose evaluation was stored during the run.
C22_TotalIsStoriesPersisted ==
    pc = "closing" => total_processed = Cardinality(PersistedInRun)

-----------------------------------------------------------------------------
(* Properties of get_unevaluated_stories                                   *)

\* the stored stories without a stored evaluation
Unevaluated ==
    {row \in stories_table :
        row.reddit_id \notin StoredIds(evaluations_table)}

\* C23: get_unevaluated_stories returns stories without an evaluation only,
\* each once, newest first: all of them when no limit is given, and the
\* limit newest of them when a limit is given.
C23_FetchIsAntiJoinNewestFirst ==
    op.name = "get_unevaluated_stories" =>
        LET n == Cardinality(Unevaluated)
            fetched == op.fetched
        IN  /\ Len(fetched) = IF op.limit.given /\ op.limit.n < n
                              THEN op.limit.n ELSE n
            /\ Range(fetched) \subseteq Unevaluated
            /\ Cardinality(Range(fetched)) = Len(fetched)
            /\ \A i, j \in 1..Len(fetched) :
                  i < j => fetched[i].created_utc >= fetched[j].created_utc
            /\ \A row \in Unevaluated \ Range(fetched) :
                  \A i \in 1..Len(fetched) :
                      fetched[i].created_utc >= row.created_utc

-----------------------------------------------------------------------------
(* Properties of the scraper's run                                         *)

\* C24: a content source that raises for a subreddit never ends the
\* scraper's run: every story a subreddit delivered, before its end or
\* before the source raised, is stored, and the run closes only after all
\* the configured subreddits were scraped.
C24_ScrapeSurvivesFailedSubreddit ==
    /\ pc # "scrape_failed"
    /\ pc \in {"scraping", "scrape_closed"} =>
          \A k \in 1..Len(scrape.feeds) :
              \A p \in 1..Len(scrape.feeds[k].posts) :
                  scrape.feeds[k].posts[p].reddit_id
                      \in StoredIds(stories_table)
    /\ pc = "scrape_closed" => Len(scrape.feeds) = scrape.n

\* the source raised for the first of two subreddits after delivering a
\* story; that story and a story of the second subreddit are stored
C24_Witness ==
    /\ pc = "scrape_closed"
    /\ scrape.n = 2
    /\ scrape.feeds[1].raises
    /\ scrape.feeds[1].posts # <<>>
    /\ scrape.feeds[2].posts # <<>>
    /\ scrape.feeds[1].posts[1] \in stories_table
    /\ scrape.feeds[2].posts[1] \in stories_table
    /\ scrape.total_new_stories = 2

-----------------------------------------------------------------------------
(* Properties of create_batches: where a batch is closed                   *)

\* C25: the first story of a batch did not fit the batch before it: that
\* batch holds MAX_STORIES_PER_BATCH stories, or its token estimates plus
\* the story's are over MAX_TOKENS_PER_BATCH.
C25_BatchesAreGreedyMaximal ==
    pc = "planned" =>
        \A k \in 1..(Len(batches) - 1) :
            \/ Len(batches[k]) >= MAX_STORIES_PER_BATCH
            \/ BatchTokens(batches[k]) + story_tokens(batches[k + 1][1])
                  > MAX_TOKENS_PER_BATCH

\* a batch of fewer than MAX_STORIES_PER_BATCH stories, within the token
\* budget, was closed before a story that is within the budget by itself
C25_Witness ==
    /\ pc = "planned"
    /\ \E k \in 1..(Len(batches) - 1) :
          /\ Len(batches[k]) > 1
          /\ Len(batches[k]) < MAX_STORIES_PER_BATCH
          /\ BatchTokens(batches[k]) <= MAX_TOKENS_PER_BATCH
          /\ story_tokens(batches[k + 1][1]) <= MAX_TOKENS_PER_BATCH

-----------------------------------------------------------------------------
(* Properties of successive runs: what is submitted again                  *)

\* the limits a next run may hand to get_unevaluated_stories
NextLimits == {NoLimit} \cup {Limit(n) : n \in 0..MaxStored}

\* the stories the run fetched that have no stored evaluation: the
\* coverage gaps and the stories of failed and of abandoned batches
LeftUnevaluated ==
    {stories[i] : i \in {j \in 1..Len(stories) :
        stories[j].reddit_id \notin StoredIds(evaluations_table)}}

\* what a next run fetches under this limit
NextFetch(limit) ==
    Range(get_unevaluated_stories(stories_table, evaluations_table, limit))

\* a batch the run has still to submit holds no story with a stored
\* evaluation
OnlyUnevaluatedAreSubmitted ==
    InRun =>
        \A k \in (Len(Scores) + 1)..Len(batches) :
            BatchIds(batches[k]) \cap StoredIds(evaluations_table) = {}

-----------------------------------------------------------------------------
(* Termination of run                                                      *)

\* C27: run is never stuck in its loop and the loop is bounded by the
\* plan: the batch to process is always one of the plan, the batches
\* processed so far are different batches, at most Len(batches) of them,
\* and the calls made so far are at most four for each of them (scoring
\* call, merge, return, delay), after which run closes.
C27_LoopBoundedByPlan ==
    InRun =>
        /\ batch_no \in 1..Len(batches)
        /\ Len(Returns) = IF pc = "loop" THEN batch_no - 1 ELSE batch_no
        /\ Len(Returns) <= Len(batches)
        /\ \A i, j \in 1..Len(Returns) :
              i # j => Returns[i].ids # Returns[j].ids
        /\ Len(trace) <= 4 * Len(Returns)
        /\ pc = "closing" => Len(trace) <= 4 * Len(batches) - 1

\* a run ended after the longest loop a plan of four batches allows: four
\* scoring calls, four merges, three delays
C27_Witness ==
    /\ pc = "closing"
    /\ Len(batches) = 4
    /\ Len(Returns) = 4
    /\ Len(trace) = 15

-----------------------------------------------------------------------------
(* The store connection of run                                             *)

\* C28: no run that connected to the store has returned with the
\* connection open.
C28_ConnectionClosedOnReturn ==
    pc = "idle" => engine # "open"

=============================================================================
